---- MODULE Spec2Model ----
(***************************************************************************)
(* go-npm, src/assets/unzip.js: the response body of a download is         *)
(* collected into one Buffer (getBody) and one named entry of the ZIP      *)
(* archive is written to disk (unzip).                                     *)
(*                                                                         *)
(* A Buffer is a view [obj, mem, off, len] on a block of memory: obj is    *)
(* the identity of the Buffer object, mem the block it reads, so that a    *)
(* copy, a view (subarray) and the object itself are three different       *)
(* things.  heap[m] is the content of block m.                             *)
(*                                                                         *)
(* src/common.js: getInstallationPath finds the directory binaries are     *)
(* installed in, getUrl picks the download URL of a platform and an        *)
(* architecture (CommonSpec).                                              *)
(***************************************************************************)
EXTENDS Integers, Sequences, FiniteSets, TLC

\* Bounds of the model: fragments delivered, and bytes delivered in all.
MaxFrags == 3
MaxTotal == 3

\* Byte values.  Three values are enough to tell fragments apart and to
\* carry the fields of the container format below.
Byte == 0..2

\* A cell of Buffer.allocUnsafe memory that was never written: reading it
\* yields an arbitrary byte (Concretions).
Uninit == -1

\* buffer.constants.MAX_LENGTH, scaled: larger than any payload of the model,
\* so that Buffer.concat never exceeds it.
MAX_LENGTH == MaxTotal + 1

\* Memory blocks: 0 is the reserved memory, k the memory of fragment k,
\* ConcatMem the block Buffer.concat allocates.
ReservedMem == 0
ConcatMem == MaxFrags + 1
MemIds == 0..ConcatMem

NoBuffer == [obj |-> <<"none", 0>>, mem |-> 0, off |-> 0, len |-> 0]

VARIABLES
    contentLength,    \* Number(content-length header): [nan, halves],
                      \*   a local of the promise executor
    reservedMemory,   \* [tag, buf, reservedByteLength, updatedByteLength]
    chunkList,        \* sequence of Buffers
    heap,             \* memory block -> sequence of cells
    written,          \* number of calls of write()
    expected,         \* the payload of those calls, in order
    chunk,            \* what the last call of write() was handed: "none",
                      \*   "buffer", "string", "other"
    doneCalls,        \* calls of done
    srcState,         \* the request: "open", "ended", "errored"
    piped,            \* req.pipe(dest) still connects the two
    destState,        \* the Writable: "none", "open", "ending", "finished",
                      \*   "errorPending", "errored"
    promise,          \* getBody's promise: "pending", "resolved", "rejected"
    zipData,          \* the Buffer getBody resolved with
    chain,            \* the .then(...).catch(onError) chain
    error,            \* the error a rejection carries
    file,             \* the file at join(binPath, binName)
    fileBefore,       \* that file when unzip was called
    writeData,        \* the data handed to fs.writeFile
    writeMode,        \* the mode handed to fs.writeFile
    writeCalls,       \* calls of fs.writeFile
    onSuccessCalls,   \* calls of onSuccess
    onErrorCalls,     \* calls of onError
    onErrorArg,       \* the argument of the last onError call
    process,          \* [platform, versions, env, cwd] of the running process
    npmBin,           \* [err, stdout, stderr]: what exec('npm bin') yields
    packageManager,   \* usedPM().name
    pc,               \* getInstallationPath: "idle", "exec", "returned",
                      \*   "thrown"
    callbackCalls,    \* calls of callback
    callbackArgs,     \* [err, dir] of the last call of callback
    made,             \* the directories mkdirp.sync made
    urlArgs,          \* [url, process] of the last call of getUrl
    returned          \* what that call returned or threw

collector == <<contentLength, reservedMemory, chunkList, heap, written, expected,
               chunk, doneCalls>>
stream == <<srcState, piped, destState>>
outcome == <<promise, zipData, chain, error>>
disk == <<file, fileBefore, writeData, writeMode, writeCalls>>
callbacks == <<onSuccessCalls, onErrorCalls, onErrorArg>>
unzipVars == <<collector, stream, outcome, disk, callbacks>>
common == <<process, npmBin, packageManager, pc, callbackCalls, callbackArgs,
            made, urlArgs, returned>>
vars == <<unzipVars, common>>

----------------------------------------------------------------------------
\* Sequences of bytes

RECURSIVE Flatten(_)
Flatten(ss) ==
    IF ss = <<>> THEN <<>> ELSE Head(ss) \o Flatten(Tail(ss))

ByteSeqs(n) == UNION {[1..k -> Byte] : k \in 0..n}

Min(a, b) == IF a < b THEN a ELSE b

\* cells off+1 .. off+len of block b.mem
BytesOf(b, h) == SubSeq(h[b.mem], b.off + 1, b.off + b.len)

\* buf.subarray(start, end): a new Buffer object on the same memory
subarray(b, start, end, id) ==
    LET e == Min(end, b.len)
        s == Min(start, e)
    IN  [obj |-> id, mem |-> b.mem, off |-> b.off + s, len |-> e - s]

\* chunk.copy(target, targetStart): the cells of `target` after the copy
copy(src, target, targetStart) ==
    [i \in 1..Len(target) |->
        IF i > targetStart /\ i <= targetStart + Len(src)
        THEN src[i - targetStart]
        ELSE target[i]]

----------------------------------------------------------------------------
\* The content-length header and Number()

\* Number(x) as [nan, halves]: the value in halves, so that 3 stands for 1.5
Number(h) ==
    IF h.kind = "numeric"
    THEN [nan |-> FALSE, halves |-> h.halves]
    ELSE [nan |-> TRUE, halves |-> 0]

IsInteger(x) == ~x.nan /\ x.halves % 2 = 0

\* req.response missing, no header, a header that is no number, and numeric
\* headers: -1, 0, 0.5, and 1 .. MAX_LENGTH + 1
Headers ==
    {[kind |-> k, halves |-> 0] : k \in {"noresponse", "absent", "text"}}
    \cup {[kind |-> "numeric", halves |-> n] :
            n \in {-2, 0, 1} \cup {2 * k : k \in 1..(MAX_LENGTH + 1)}}

NoMemory(tag) ==
    [tag |-> tag, buf |-> NoBuffer, reservedByteLength |-> 0,
     updatedByteLength |-> 0]

ReservedBuf(n) ==
    [obj |-> <<"reserved", 0>>, mem |-> ReservedMem, off |-> 0, len |-> n]

\* (mutant) no upper limit on the memory reserved
Reserves_NoLimit(cl) ==
    /\ IsInteger(cl)
    /\ 0 < cl.halves

\* the condition under which memory is reserved in advance
Reserves(cl) ==
    /\ IsInteger(cl)
    /\ 0 < cl.halves
    /\ cl.halves <= 2 * MAX_LENGTH

\* reservedMemory after the constructor ran
InitialMemory(cl) ==
    IF Reserves(cl)
    THEN [tag |-> "object", buf |-> ReservedBuf(cl.halves \div 2),
          reservedByteLength |-> cl.halves \div 2, updatedByteLength |-> 0]
    ELSE NoMemory("undefined")

\* Buffer.allocUnsafe(n): n cells nobody wrote
allocUnsafe(n) == [i \in 1..n |-> Uninit]

----------------------------------------------------------------------------
\* The chunks a stream hands to write(chunk, encoding, done)

\* A string holds characters; WideChar is one that UTF-8 encodes in two bytes.
WideChar == 3
StrChar == {0, WideChar}
Strings == {<<>>, <<0>>, <<WideChar>>}
Encodings == {"utf8"}

RECURSIVE utf8(_)
utf8(s) ==
    IF s = <<>> THEN <<>>
    ELSE (IF Head(s) = WideChar THEN <<1, 2>> ELSE <<Head(s)>>) \o utf8(Tail(s))

Chunks ==
    {[kind |-> "buffer", data |-> d, encoding |-> "buffer"] : d \in ByteSeqs(MaxTotal)}
    \cup {[kind |-> "string", data |-> s, encoding |-> "utf8"] : s \in Strings}
    \cup {[kind |-> "string", data |-> <<0>>, encoding |-> "bogus"]}
    \cup {[kind |-> "other", data |-> <<>>, encoding |-> "buffer"]}

\* Buffer.from(chunk, encoding) throws on an encoding it does not know
Throws(c) == c.kind = "string" /\ c.encoding \notin Encodings

\* the bytes of the chunk once it is a Buffer
Payload(c) ==
    IF c.kind = "buffer" THEN c.data
    ELSE IF c.kind = "string" /\ ~Throws(c) THEN utf8(c.data)
    ELSE <<>>

----------------------------------------------------------------------------
\* write(): what becomes of a Buffer b

\* (mutant) if (reservedMemory === undefined): null is not taken for "no
\* reserved memory" and the chunk is lost
append_UndefinedOnly(b, rm, cl, h) ==
    [rm |-> rm,
     cl |-> IF rm.tag = "undefined" THEN Append(cl, b) ELSE cl,
     h  |-> h]

\* no reserved memory: the chunk joins chunkList
append(b, rm, cl, h) ==
    [rm |-> rm, cl |-> Append(cl, b), h |-> h]

\* (mutant) every chunk is copied to the start of the reserved memory
fits_AtStart(b, rm, cl, h) ==
    [rm |-> [rm EXCEPT !.updatedByteLength = rm.updatedByteLength + b.len],
     cl |-> cl,
     h  |-> [h EXCEPT ![rm.buf.mem] = copy(BytesOf(b, h), @, rm.buf.off)]]

\* the chunk fits: it is copied behind what was written
fits(b, rm, cl, h) ==
    [rm |-> [rm EXCEPT !.updatedByteLength = rm.updatedByteLength + b.len],
     cl |-> cl,
     h  |-> [h EXCEPT ![rm.buf.mem] =
                copy(BytesOf(b, h), @, rm.buf.off + rm.updatedByteLength)]]

\* (mutant) buf.slice(0, updatedByteLength) of a Uint8Array: the written area
\* is copied to a block of its own
overflow_CopiesWritten(b, rm, cl, h) ==
    [rm |-> NoMemory("null"),
     cl |-> Append(
              IF rm.updatedByteLength # 0
              THEN Append(cl, [obj |-> <<"prefix", 0>>, mem |-> ConcatMem,
                               off |-> 0, len |-> rm.updatedByteLength])
              ELSE cl,
              b),
     h  |-> IF rm.updatedByteLength # 0
            THEN [h EXCEPT ![ConcatMem] =
                    SubSeq(h[rm.buf.mem], rm.buf.off + 1,
                           rm.buf.off + rm.updatedByteLength)]
            ELSE h]

\* (mutant) the reserved memory is not given up
overflow_KeepsReserved(b, rm, cl, h) ==
    [rm |-> rm,
     cl |-> Append(
              IF rm.updatedByteLength # 0
              THEN Append(cl, subarray(rm.buf, 0, rm.updatedByteLength,
                                       <<"prefix", 0>>))
              ELSE cl,
              b),
     h  |-> h]

\* (mutant) the chunk is pushed before the written area
overflow_ChunkFirst(b, rm, cl, h) ==
    [rm |-> NoMemory("null"),
     cl |-> IF rm.updatedByteLength # 0
            THEN Append(Append(cl, b),
                        subarray(rm.buf, 0, rm.updatedByteLength,
                                 <<"prefix", 0>>))
            ELSE Append(cl, b),
     h  |-> h]

\* (mutant) the written area is forgotten when the chunk does not fit
overflow_DropsWritten(b, rm, cl, h) ==
    [rm |-> NoMemory("null"), cl |-> Append(cl, b), h |-> h]

\* the chunk does not fit: the written area and the chunk join chunkList
overflow(b, rm, cl, h) ==
    [rm |-> NoMemory("null"),
     cl |-> Append(
              IF rm.updatedByteLength # 0
              THEN Append(cl, subarray(rm.buf, 0, rm.updatedByteLength,
                                       <<"prefix", 0>>))
              ELSE cl,
              b),
     h  |-> h]

\* (mutant) newByteLength < reservedByteLength
store_StrictlyLess(b, rm, cl, h) ==
    IF rm.tag # "object" THEN append(b, rm, cl, h)
    ELSE IF rm.updatedByteLength + b.len < rm.reservedByteLength
         THEN fits(b, rm, cl, h)
         ELSE overflow(b, rm, cl, h)

store(b, rm, cl, h) ==
    IF rm.tag # "object" THEN append(b, rm, cl, h)
    ELSE IF rm.updatedByteLength + b.len <= rm.reservedByteLength
         THEN fits(b, rm, cl, h)
         ELSE overflow(b, rm, cl, h)

\* (mutant) no check of the type: whatever arrives is stored
isBuffer_Always(c) == TRUE

\* typeof chunk === 'string' (then Buffer.from) or Buffer.isBuffer(chunk)
isBuffer(c) == c.kind \in {"buffer", "string"}

\* how the try block is left: by an exception, by one of its return
\* statements, or at its end
completion(c, rm) ==
    IF Throws(c) THEN "throw"
    ELSE IF ~isBuffer(c) THEN "return"
    ELSE IF rm.tag # "object" THEN "return"
    ELSE IF rm.updatedByteLength + Len(Payload(c)) <= rm.reservedByteLength
         THEN "return"
         ELSE "end"

\* (mutant) done() is the last statement of the try block
done_AtEndOfTry(c, rm) ==
    IF completion(c, rm) = "end" THEN 1 ELSE 0

\* finally { done(error) }: the calls of done in one call of write()
done(c, rm) ==
    IF completion(c, rm) \in {"throw", "return", "end"} THEN 1 ELSE 0

\* the whole handler, done(error) included
write(c) ==
    LET k == written + 1
        b == [obj |-> <<IF c.kind = "string" THEN "from" ELSE "chunk", k>>,
              mem |-> k, off |-> 0, len |-> Len(Payload(c))]
        r == store(b, reservedMemory, chunkList,
                   [heap EXCEPT ![k] = Payload(c)])
    IN  /\ written' = k
        /\ chunk' = c.kind
        /\ doneCalls' = doneCalls + done(c, reservedMemory)
        /\ expected' = expected \o Payload(c)
        /\ UNCHANGED contentLength
        /\ IF Throws(c)
           THEN /\ destState' = "errorPending"
                /\ error' = "TypeError"
                /\ UNCHANGED <<reservedMemory, chunkList, heap>>
           ELSE IF ~isBuffer(c)
           THEN UNCHANGED <<reservedMemory, chunkList, heap, destState, error>>
           ELSE /\ reservedMemory' = r.rm
                /\ chunkList' = r.cl
                /\ heap' = r.h
                /\ UNCHANGED <<destState, error>>

----------------------------------------------------------------------------
\* dest.on('finish'): the Buffer the promise is resolved with

\* Buffer.concat(list): a new block holding a copy of every Buffer's bytes
concat(cl, h) ==
    LET bytes == Flatten([i \in 1..Len(cl) |-> BytesOf(cl[i], h)])
    IN  [buf |-> [obj |-> <<"concat", 0>>, mem |-> ConcatMem, off |-> 0,
                  len |-> Len(bytes)],
         h   |-> [h EXCEPT ![ConcatMem] = bytes]]

\* (mutant) the reserved memory is handed over whole
finish_WholeBuffer(rm, cl, h) ==
    IF rm.tag = "object"
    THEN [buf |-> rm.buf, h |-> h]
    ELSE IF Len(cl) = 1
         THEN [buf |-> cl[1], h |-> h]
         ELSE concat(cl, h)

\* (mutant) chunkList is always concatenated
finish_AlwaysConcat(rm, cl, h) ==
    IF rm.tag = "object"
    THEN [buf |-> subarray(rm.buf, 0, rm.updatedByteLength, <<"result", 0>>),
          h   |-> h]
    ELSE concat(cl, h)

finish(rm, cl, h) ==
    IF rm.tag = "object"
    THEN [buf |-> subarray(rm.buf, 0, rm.updatedByteLength, <<"result", 0>>),
          h   |-> h]
    ELSE IF Len(cl) = 1
         THEN [buf |-> cl[1], h |-> h]
         ELSE concat(cl, h)

----------------------------------------------------------------------------
\* The archive.  AdmZip is a library; the container it reads is modelled as
\* content bytes followed by a two-byte trailer <<attr, name>>:
\*   name: whether the one entry is named opts.binName, and whether that
\*         name is the name of a directory
\*   attr: the permission bits the entry records (0o755 or 0o000), if any.
\*         entry.header.fileAttr is the external attribute masked to its
\*         permission bits, and 0 when none is recorded: an entry that
\*         records 0o000 and one that records nothing both read 0

NameOther == 0
NameFile == 1
NameDirectory == 2
AttrNone == 0
AttrExecutable == 1
AttrNoBits == 2
ModeExecutable == 493
ModeNoBits == 0
ModeDefault == 438
TrailerLen == 2

\* an arbitrary byte for every cell nobody wrote
Concretions(cells) ==
    IF \A i \in 1..Len(cells) : cells[i] # Uninit
    THEN {cells}
    ELSE {t \in [1..Len(cells) -> Byte] :
            \A i \in 1..Len(cells) : cells[i] # Uninit => t[i] = cells[i]}

\* new AdmZip(zipData): throws when the buffer is too short to hold the trailer
AdmZip(bytes) ==
    LET n == Len(bytes) IN
    IF n < TrailerLen
    THEN [ok |-> FALSE, name |-> NameOther, attr |-> 0, data |-> <<>>]
    ELSE [ok |-> TRUE, name |-> bytes[n],
          attr |-> IF bytes[n - 1] = AttrExecutable THEN ModeExecutable
                   ELSE IF bytes[n - 1] = AttrNoBits THEN ModeNoBits
                   ELSE 0,
          data |-> SubSeq(bytes, 1, n - TrailerLen)]

\* (mutant) the first entry is taken, whatever its name
getEntry_AnyName(zip) ==
    [present |-> TRUE,
     isDirectory |-> zip.name = NameDirectory,
     fileAttr |-> zip.attr,
     data |-> zip.data]

\* zip.getEntry(opts.binName)
getEntry(zip) ==
    [present |-> zip.name \in {NameFile, NameDirectory},
     isDirectory |-> zip.name = NameDirectory,
     fileAttr |-> zip.attr,
     data |-> zip.data]

\* (mutant) !entry
Skips_AbsentOnly(entry) == ~entry.present

\* !entry || entry.isDirectory
Skips(entry) == ~entry.present \/ entry.isDirectory

\* entry.header.fileAttr || 0o666
fileAttr(entry) ==
    IF entry.fileAttr # 0 THEN entry.fileAttr ELSE ModeDefault

NoFile == [exists |-> FALSE, content |-> <<>>]
OldFile == [exists |-> TRUE, content |-> <<0, 0, 0>>]

----------------------------------------------------------------------------
\* src/common.js.  A string is a sequence of tokens: "/" (the root an
\* absolute path starts at), the names of a path, LF (white space) and the
\* words of a message.  The separators between the names of a path are not
\* modelled.

LF == "LF"

\* Mapping from Node's `process.arch` to Golang's `$GOARCH`
ARCH_MAPPING ==
    [ia32 |-> "386", x64 |-> "amd64", arm |-> "arm", arm64 |-> "arm64"]

\* Mapping between Node's `process.platform` to Golang's
PLATFORM_MAPPING ==
    [darwin |-> "darwin", linux |-> "linux", win32 |-> "windows",
     freebsd |-> "freebsd"]

\* MAPPING[key]: undefined for a key the mapping does not have
Lookup(mapping, key) ==
    IF key \in DOMAIN mapping THEN mapping[key] ELSE "undefined"

RECURSIVE trimStart(_)
trimStart(s) ==
    IF s # <<>> /\ Head(s) = LF THEN trimStart(Tail(s)) ELSE s

RECURSIVE trimEnd(_)
trimEnd(s) ==
    IF s # <<>> /\ s[Len(s)] = LF
    THEN trimEnd(SubSeq(s, 1, Len(s) - 1))
    ELSE s

\* stdout.trim()
trim(s) == trimEnd(trimStart(s))

\* path.isAbsolute
isAbsolute(s) == s # <<>> /\ s[1] = "/"

\* path.join
join(a, b) == a \o b

\* dir.replace(/node_modules.*[\/\\]\.bin/, join('node_modules', '.bin')):
\* the leftmost node_modules up to the last .bin of its line is replaced
replace(dir) ==
    LET ends(i) == {j \in (i + 1)..Len(dir) :
                      /\ dir[j] = ".bin"
                      /\ \A k \in i..j : dir[k] # LF}
        starts == {i \in 1..Len(dir) :
                      dir[i] = "node_modules" /\ ends(i) # {}}
    IN  IF starts = {} THEN dir
        ELSE LET i == CHOOSE m \in starts : \A n \in starts : m <= n
                 j == CHOOSE m \in ends(i) : \A n \in ends(i) : m >= n
             IN  SubSeq(dir, 1, i - 1)
                    \o join(<<"node_modules">>, <<".bin">>)
                    \o SubSeq(dir, j + 1, Len(dir))

\* name.toLowerCase()
toLowerCase(name) == IF name = "PNPM" THEN "pnpm" ELSE name

\* an environment variable that is not set
Unset == [set |-> FALSE, value |-> <<>>]

\* env.NAME as a condition
IsSet(v) == v.set /\ v.value # <<>>

\* what exec('npm bin') can yield
Stdouts ==
    {<<>>, <<LF>>,
     <<"/", "usr", "bin", LF>>,
     <<"/", "proj", "node_modules", ".bin", LF>>,
     <<"/", "proj", "node_modules", "pkg", "node_modules", ".bin", LF>>,
     <<"Unknown", "command", LF>>}
Stderrs == {<<>>, <<"npm", "WARN">>}

NodeVersions == {<<19, 9>>, <<20, 0>>}
Platforms == {"linux", "win32"}
Prefixes == {Unset, [set |-> TRUE, value |-> <<"/", "usr">>]}
LocalPrefixes == {Unset, [set |-> TRUE, value |-> <<"/", "proj">>]}
Cwds == {<<"/", "proj">>, <<"/", "proj", "node_modules", "pkg">>}
PackageManagers == {"npm", "pnpm", "PNPM"}

NoArgs == [err |-> "none", dir |-> <<>>]
NotFound == "Error finding binary installation directory"

\* the condition under which the output of `npm bin` is not used
npmBinFailed(r, p) ==
    \/ r.err
    \/ r.stderr # <<>>
    \/ r.stdout = <<>>
    \/ (p.versions.node[1] >= 20 /\ ~isAbsolute(trim(r.stdout)))

\* the directory the environment gives
envDir(p, pm) ==
    IF IsSet(p.env.npm_config_prefix)
    THEN [found |-> TRUE,
          dir |-> IF p.platform = "win32"
                  THEN p.env.npm_config_prefix.value
                  ELSE join(p.env.npm_config_prefix.value, <<"bin">>)]
    ELSE IF IsSet(p.env.npm_config_local_prefix)
    THEN [found |-> TRUE,
          dir |-> join(p.env.npm_config_local_prefix.value,
                       join(<<"node_modules">>, <<".bin">>))]
    ELSE IF toLowerCase(pm) = "pnpm"
    THEN [found |-> TRUE,
          dir |-> join(p.cwd, join(<<"node_modules">>, <<".bin">>))]
    ELSE [found |-> FALSE, dir |-> <<>>]

\* dir before it is normalised
findDir(r, p, pm) ==
    IF npmBinFailed(r, p)
    THEN envDir(p, pm)
    ELSE [found |-> TRUE, dir |-> trim(r.stdout)]

----------------------------------------------------------------------------
\* getUrl(url, process).  A value is a string, an object or undefined;
\* goBinary.url is a string, or an object of platforms whose entries are
\* strings or objects of architectures.

PlatformKeys == {"linux", "windows", "default"}
ArchKeys == {"amd64", "arm64", "default"}

Undefined2 == [type |-> "undefined", str |-> <<>>]
String2(s) == [type |-> "string", str |-> s]
NoEntries == [k \in ArchKeys |-> Undefined2]

Undefined1 == [type |-> "undefined", str |-> <<>>, obj |-> NoEntries]
String1(s) == [type |-> "string", str |-> s, obj |-> NoEntries]
Object1(o) == [type |-> "object", str |-> <<>>, obj |-> o]

\* the entries a platform key can have: none, a URL, or an object that has
\* a URL for the architectures S
Entries(k) ==
    {Undefined1, String1(<<k>>)}
    \cup {Object1([a \in ArchKeys |->
                    IF a \in S THEN String2(<<k, a>>) ELSE Undefined2]) :
            S \in SUBSET ArchKeys}

Urls ==
    {[type |-> "string", str |-> <<"http">>,
      obj |-> [k \in PlatformKeys |-> Undefined1]]}
    \cup {[type |-> "object", str |-> <<>>, obj |-> o] :
            o \in {f \in [PlatformKeys -> UNION {Entries(k) : k \in PlatformKeys}] :
                      \A k \in PlatformKeys : f[k] \in Entries(k)}}

UrlProcesses ==
    [platform : {"linux", "win32", "darwin", "aix"},
     arch : {"x64", "arm64", "ia32", "mips"}]

\* object[key]
Get(object, key, undefined) ==
    IF key \in DOMAIN object THEN object[key] ELSE undefined

\* a value as a condition
Truthy(v) == v.type = "object" \/ (v.type = "string" /\ v.str # <<>>)

Returns(v) == [thrown |-> FALSE, type |-> v.type, str |-> v.str]
TypeError == [thrown |-> TRUE, type |-> "undefined", str |-> <<>>]
NoCall == [thrown |-> FALSE, type |-> "none", str |-> <<>>]

getUrl(u, p) ==
    IF u.type = "string" THEN Returns(u)
    ELSE
        LET platform == Lookup(PLATFORM_MAPPING, p.platform)
            _url == IF Truthy(Get(u.obj, platform, Undefined1))
                    THEN Get(u.obj, platform, Undefined1)
                    ELSE Get(u.obj, "default", Undefined1)
            arch == Lookup(ARCH_MAPPING, p.arch)
        IN  IF _url.type = "string" THEN Returns(_url)
            ELSE IF _url.type = "undefined" THEN TypeError
            ELSE IF Truthy(Get(_url.obj, arch, Undefined2))
                 THEN Returns(Get(_url.obj, arch, Undefined2))
                 ELSE Returns(Get(_url.obj, "default", Undefined2))

\* nothing of common.js has run
CommonIdle ==
    /\ process = [platform |-> "linux", versions |-> [node |-> <<20, 0>>],
                  env |-> [npm_config_prefix |-> Unset,
                           npm_config_local_prefix |-> Unset],
                  cwd |-> <<"/", "proj">>]
    /\ npmBin = [err |-> FALSE, stdout |-> <<>>, stderr |-> <<>>]
    /\ packageManager = "npm"
    /\ pc = "idle"
    /\ callbackCalls = 0
    /\ callbackArgs = NoArgs
    /\ made = {}
    /\ urlArgs = [url |-> String1(<<>>), process |-> [platform |-> "linux", arch |-> "x64"]]
    /\ returned = NoCall

----------------------------------------------------------------------------
\* unzip({ opts, req, onSuccess, onError }) is called: the promise executor
\* of getBody has read the header and is about to build the collector.

Undefined == [nan |-> TRUE, halves |-> 0]

Init ==
    /\ \E h \in Headers : contentLength = Number(h)
    /\ reservedMemory = NoMemory("undefined")
    /\ chunkList = <<>>
    /\ heap = [m \in MemIds |-> <<>>]
    /\ written = 0
    /\ expected = <<>>
    /\ chunk = "none"
    /\ doneCalls = 0
    /\ srcState = "open"
    /\ piped = FALSE
    /\ destState = "none"
    /\ promise = "none"
    /\ zipData = NoBuffer
    /\ chain = "none"
    /\ error = "none"
    /\ file \in {NoFile, OldFile}
    /\ fileBefore = file
    /\ writeData = <<>>
    /\ writeMode = 0
    /\ writeCalls = 0
    /\ onSuccessCalls = 0
    /\ onErrorCalls = 0
    /\ onErrorArg = "none"
    /\ CommonIdle

\* the rest of the executor and of unzip: memory is reserved, the request is
\* piped into the Writable, the chain is attached; contentLength goes out of
\* scope
getBody ==
    /\ UNCHANGED common
    /\ destState = "none"
    /\ reservedMemory' = InitialMemory(contentLength)
    /\ heap' = [heap EXCEPT ![ReservedMem] =
                  allocUnsafe(reservedMemory'.reservedByteLength)]
    /\ contentLength' = Undefined
    /\ destState' = "open"
    /\ piped' = TRUE
    /\ promise' = "pending"
    /\ chain' = "pending"
    /\ UNCHANGED <<chunkList, written, expected, chunk, doneCalls, srcState,
                   zipData, error, disk, callbacks>>

\* the request emits 'data': the pipe hands the chunk to dest.write(), which
\* calls write() once done was called for the chunk before
Data(c) ==
    /\ UNCHANGED common
    /\ srcState = "open"
    /\ piped
    /\ destState = "open"
    /\ doneCalls = written
    /\ written < MaxFrags
    /\ Len(Payload(c)) <= MaxTotal - Len(expected)
    /\ write(c)
    /\ UNCHANGED <<srcState, piped, promise, zipData, chain, disk, callbacks>>

\* the request emits 'end': the pipe calls dest.end()
End ==
    /\ UNCHANGED common
    /\ destState # "none"
    /\ srcState = "open"
    /\ srcState' = "ended"
    /\ piped' = FALSE
    /\ destState' = IF piped /\ destState = "open" THEN "ending" ELSE destState
    /\ UNCHANGED <<collector, outcome, disk, callbacks>>

\* the request emits 'error': the pipe lets go of dest and does nothing else
SrcError ==
    /\ UNCHANGED common
    /\ destState # "none"
    /\ srcState = "open"
    /\ srcState' = "errored"
    /\ piped' = FALSE
    /\ UNCHANGED <<destState, collector, outcome, disk, callbacks>>

\* (mutant) the handler is attached to an event that precedes the end
FinishDue_Early == destState \in {"open", "ending"}

\* dest emits 'finish' once end() was called and done was called for every
\* chunk
FinishDue == destState = "ending" /\ doneCalls = written

\* dest emits 'finish': the handler resolves the promise
Finish ==
    /\ UNCHANGED common
    /\ FinishDue
    /\ destState' = "finished"
    /\ LET r == finish(reservedMemory, chunkList, heap)
       IN  /\ zipData' = r.buf
           /\ heap' = r.h
    /\ promise' = "resolved"
    /\ UNCHANGED <<contentLength, reservedMemory, chunkList, written,
                   expected, chunk, doneCalls, srcState, piped, chain, error,
                   disk, callbacks>>

\* dest emits 'error' after done(error): reject
DestError ==
    /\ UNCHANGED common
    /\ destState = "errorPending"
    /\ destState' = "errored"
    /\ piped' = FALSE
    /\ promise' = "rejected"
    /\ UNCHANGED <<collector, srcState, zipData, chain, error, disk, callbacks>>

\* the .then() handler, up to its first await or its return
ThenHandler ==
    /\ UNCHANGED common
    /\ promise = "resolved"
    /\ chain = "pending"
    /\ \E bytes \in Concretions(BytesOf(zipData, heap)) :
        LET zip == AdmZip(bytes)
            entry == getEntry(zip)
        IN  IF ~zip.ok
            THEN /\ chain' = "rejected"
                 /\ error' = "ZipError"
                 /\ UNCHANGED <<disk, onSuccessCalls>>
            ELSE IF Skips(entry)
            THEN /\ onSuccessCalls' = onSuccessCalls + 1
                 /\ chain' = "fulfilled"
                 /\ UNCHANGED <<disk, error>>
            ELSE /\ writeData' = entry.data
                 /\ writeMode' = fileAttr(entry)
                 /\ writeCalls' = writeCalls + 1
                 /\ chain' = "writing"
                 /\ UNCHANGED <<file, fileBefore, error, onSuccessCalls>>
    /\ UNCHANGED <<collector, stream, promise, zipData, onErrorCalls, onErrorArg>>

\* (mutant) the file is not truncated: what lay behind the data stays
writeFile_NoTruncate(old, data) ==
    [exists |-> TRUE,
     content |-> data \o SubSeq(old.content, Len(data) + 1, Len(old.content))]

\* fs.writeFile (flag 'w') replaces the content of the file
writeFile(old, data) == [exists |-> TRUE, content |-> data]

\* fs.writeFile fulfils
WriteFileDone ==
    /\ UNCHANGED common
    /\ chain = "writing"
    /\ file' = writeFile(file, writeData)
    /\ chain' = "written"
    /\ UNCHANGED <<collector, stream, promise, zipData, error, fileBefore,
                   writeData, writeMode, writeCalls, callbacks>>

\* fs.writeFile rejects: nothing was opened, or the file was truncated and
\* only a part of the data reached it
WriteFileFail ==
    /\ UNCHANGED common
    /\ chain = "writing"
    /\ \/ file' = file
       \/ \E n \in 0..(Len(writeData) - 1) :
            file' = writeFile(file, SubSeq(writeData, 1, n))
    /\ chain' = "rejected"
    /\ error' = "WriteError"
    /\ UNCHANGED <<collector, stream, promise, zipData, fileBefore, writeData,
                   writeMode, writeCalls, callbacks>>

\* the handler resumes after `await fs.writeFile(...)`
AfterWrite ==
    /\ UNCHANGED common
    /\ chain = "written"
    /\ onSuccessCalls' = onSuccessCalls + 1
    /\ chain' = "fulfilled"
    /\ UNCHANGED <<collector, stream, promise, zipData, error, disk,
                   onErrorCalls, onErrorArg>>

\* (mutant) .catch(onError).then(handler): the handler's errors are not caught
CatchDue_BeforeThen == promise = "rejected" /\ chain = "pending"

\* (mutant) .finally(onError)
CatchDue_Finally ==
    \/ promise = "rejected" /\ chain = "pending"
    \/ chain \in {"rejected", "fulfilled"}

\* .then(handler).catch(onError): onError is due when getBody rejected or
\* the handler threw
CatchDue ==
    \/ promise = "rejected" /\ chain = "pending"
    \/ chain = "rejected"

\* .catch(onError)
CatchHandler ==
    /\ UNCHANGED common
    /\ CatchDue
    /\ onErrorCalls' = onErrorCalls + 1
    /\ onErrorArg' = error
    /\ chain' = "caught"
    /\ UNCHANGED <<collector, stream, promise, zipData, error, disk,
                   onSuccessCalls>>

Next ==
    \/ getBody
    \/ \E c \in Chunks : Data(c)
    \/ End
    \/ SrcError
    \/ Finish
    \/ DestError
    \/ ThenHandler
    \/ WriteFileDone
    \/ WriteFileFail
    \/ AfterWrite
    \/ CatchHandler

Spec == Init /\ [][Next]_vars

\* The event loop runs every callback that is due; what the request does is
\* up to the network.
Progress ==
    \/ Finish
    \/ DestError
    \/ ThenHandler
    \/ WriteFileDone
    \/ WriteFileFail
    \/ AfterWrite
    \/ CatchHandler

FairSpec == Spec /\ WF_vars(Progress)

----------------------------------------------------------------------------
\* src/common.js

\* unzip has not been called
UnzipIdle ==
    /\ contentLength = Undefined
    /\ reservedMemory = NoMemory("undefined")
    /\ chunkList = <<>>
    /\ heap = [m \in MemIds |-> <<>>]
    /\ written = 0
    /\ expected = <<>>
    /\ chunk = "none"
    /\ doneCalls = 0
    /\ srcState = "open"
    /\ piped = FALSE
    /\ destState = "none"
    /\ promise = "none"
    /\ zipData = NoBuffer
    /\ chain = "none"
    /\ error = "none"
    /\ file = NoFile
    /\ fileBefore = NoFile
    /\ writeData = <<>>
    /\ writeMode = 0
    /\ writeCalls = 0
    /\ onSuccessCalls = 0
    /\ onErrorCalls = 0
    /\ onErrorArg = "none"

\* a process, its environment, and what `npm bin` will yield in it
PathInit ==
    /\ UnzipIdle
    /\ process \in [platform : Platforms,
                    versions : [node : NodeVersions],
                    env : [npm_config_prefix : Prefixes,
                           npm_config_local_prefix : LocalPrefixes],
                    cwd : Cwds]
    /\ npmBin \in [err : BOOLEAN, stdout : Stdouts, stderr : Stderrs]
    /\ packageManager \in PackageManagers
    /\ pc = "idle"
    /\ callbackCalls = 0
    /\ callbackArgs = NoArgs
    /\ made = {}
    /\ urlArgs = [url |-> String1(<<>>), process |-> [platform |-> "linux", arch |-> "x64"]]
    /\ returned = NoCall

\* getInstallationPath(callback): exec('npm bin', ...) is called
getInstallationPath ==
    /\ pc = "idle"
    /\ pc' = "exec"
    /\ UNCHANGED <<unzipVars, process, npmBin, packageManager, callbackCalls,
                   callbackArgs, made, urlArgs, returned>>

\* the callback of exec: it returns after callback(...), or mkdirp.sync
\* throws
execCallback ==
    /\ pc = "exec"
    /\ LET found == findDir(npmBin, process, packageManager)
           dir == replace(found.dir)
       IN  IF ~found.found
           THEN /\ callbackCalls' = callbackCalls + 1
                /\ callbackArgs' = [err |-> NotFound, dir |-> <<>>]
                /\ pc' = "returned"
                /\ UNCHANGED made
           ELSE \/ /\ made' = made \cup {dir}
                   /\ callbackCalls' = callbackCalls + 1
                   /\ callbackArgs' = [err |-> "null", dir |-> dir]
                   /\ pc' = "returned"
                \/ /\ pc' = "thrown"
                   /\ UNCHANGED <<made, callbackCalls, callbackArgs>>
    /\ UNCHANGED <<unzipVars, process, npmBin, packageManager, urlArgs,
                   returned>>

PathNext ==
    \/ getInstallationPath
    \/ execCallback

PathSpec == PathInit /\ [][PathNext]_vars

UrlInit ==
    /\ UnzipIdle
    /\ CommonIdle

\* a call of getUrl(url, process)
CallGetUrl(u, p) ==
    /\ returned = NoCall
    /\ urlArgs' = [url |-> u, process |-> p]
    /\ returned' = getUrl(u, p)
    /\ UNCHANGED <<unzipVars, process, npmBin, packageManager, pc,
                   callbackCalls, callbackArgs, made>>

UrlNext == \E u \in Urls, p \in UrlProcesses : CallGetUrl(u, p)

UrlSpec == UrlInit /\ [][UrlNext]_vars

----------------------------------------------------------------------------
\* Properties

\* the stream ended and getBody resolved
Collected == promise = "resolved"

\* what the archive holds, read off the bytes the stream delivered
SentValid == Len(expected) >= TrailerLen
SentName == expected[Len(expected)]
SentAttr == expected[Len(expected) - 1]
SentContent == SubSeq(expected, 1, Len(expected) - TrailerLen)
SentIsFile == SentValid /\ SentName = NameFile
SentIsSkipped == SentValid /\ SentName \in {NameOther, NameDirectory}

\* C1: when the stream ends without an error, getBody resolves, and the
\* Buffer it resolves with holds exactly the bytes of the fragments, in the
\* order they arrived, whatever the content-length header said
C1_CollectsExactly ==
    /\ destState = "finished" <=> promise = "resolved"
    /\ promise = "resolved" =>
        /\ zipData.len = Len(expected)
        /\ BytesOf(zipData, heap) = expected

\* C1, witness: the header declared less than arrived; a written area and
\* two more fragments were concatenated
C1_Witness ==
    /\ promise = "resolved"
    /\ reservedMemory.tag = "null"
    /\ Len(chunkList) = 3
    /\ chunkList[1].mem = ReservedMem
    /\ zipData.len = MaxTotal

\* nothing the event loop has to run is left
Quiet == ~ENABLED Progress

\* C2: when the request reports an error while the body is being collected,
\* the promise is rejected and onError is called; no buffer is handed over
\* and the extractor does not run.  (Stated for the state the program comes
\* to rest in.)
C2_StreamErrorRejects ==
    (srcState = "errored" /\ Quiet) =>
        /\ promise = "rejected"
        /\ onErrorCalls = 1
        /\ zipData = NoBuffer
        /\ writeCalls = 0

C4_OutcomeProduced ==
    (srcState # "open" /\ Quiet) => onSuccessCalls + onErrorCalls >= 1

\* C5: when the bytes sent are an archive whose entry is the file binName
\* with content C and mode M, the extractor takes exactly that path, however
\* the bytes were cut into fragments: it writes C with mode M, and the file
\* holds C once the write is done
C5_RoundTrip ==
    (Collected /\ SentIsFile) =>
        /\ chain \in {"pending", "writing", "written", "fulfilled",
                      "rejected", "caught"}
        /\ chain \in {"rejected", "caught"} => error = "WriteError"
        /\ chain # "pending" =>
            /\ writeCalls = 1
            /\ writeData = SentContent
            /\ SentAttr = AttrExecutable => writeMode = ModeExecutable
            /\ SentAttr = AttrNoBits => writeMode = ModeNoBits
        /\ chain \in {"written", "fulfilled"} =>
            file = [exists |-> TRUE, content |-> SentContent]

\* C5, witness: the archive arrived one byte at a time and its entry was
\* written, with the mode it records
C5_Witness ==
    /\ written = MaxTotal
    /\ Len(expected) = MaxTotal
    /\ Len(chunkList) = MaxTotal
    /\ chain = "fulfilled"
    /\ writeCalls = 1
    /\ writeMode = ModeExecutable
    /\ file.content = <<expected[1]>>

\* C6: when the archive is valid and binName is not in it, or names a
\* directory, onSuccess is called, onError is not, and nothing is written
C6_AbsentIsSuccess ==
    (Collected /\ SentIsSkipped) =>
        /\ chain \in {"pending", "fulfilled"}
        /\ chain = "fulfilled" => onSuccessCalls = 1
        /\ onErrorCalls = 0
        /\ writeCalls = 0
        /\ file = fileBefore

\* C6, witness: the entry is a directory named binName; onSuccess was called
\* and the file is as it was
C6_Witness ==
    /\ Collected
    /\ SentValid
    /\ SentName = NameDirectory
    /\ onSuccessCalls = 1
    /\ file = fileBefore

\* C7: a stream that ends without a byte makes the extractor fail: onError
\* is called with the archive error; onSuccess is not called and nothing is
\* written
C7_EmptyIsMalformed ==
    (Collected /\ expected = <<>>) =>
        /\ chain \in {"pending", "rejected", "caught"}
        /\ chain # "pending" => error = "ZipError"
        /\ chain = "caught" => onErrorCalls = 1 /\ onErrorArg = "ZipError"
        /\ onSuccessCalls = 0
        /\ writeCalls = 0

\* C7, witness: memory was reserved, nothing arrived, onError was called
C7_Witness ==
    /\ expected = <<>>
    /\ reservedMemory.tag = "object"
    /\ reservedMemory.reservedByteLength >= TrailerLen
    /\ onErrorCalls = 1
    /\ onErrorArg = "ZipError"

\* C8: when no memory was reserved and one fragment arrived, getBody
\* resolves with that very Buffer (for a string, the Buffer made of it): the
\* object that was put on chunkList, reading the fragment's own memory
C8_SoleFragmentIsResult ==
    (Collected /\ written = 1 /\ reservedMemory.tag = "undefined"
        /\ Len(chunkList) = 1) =>
        /\ zipData = chunkList[1]
        /\ zipData.obj \in {<<"chunk", 1>>, <<"from", 1>>}
        /\ zipData.mem = 1

\* C8, witness: one Buffer of two bytes arrived and is the result
C8_Witness ==
    /\ Collected
    /\ written = 1
    /\ reservedMemory.tag = "undefined"
    /\ zipData.obj = <<"chunk", 1>>
    /\ zipData.len = 2

\* the extractor has taken a step
Extracting ==
    \/ chain \in {"writing", "written", "fulfilled", "rejected"}
    \/ chain = "caught" /\ error \in {"ZipError", "WriteError"}
    \/ writeCalls > 0
    \/ onSuccessCalls > 0

\* C9: the extractor runs only once the stream has ended and getBody has
\* resolved; it does not run when getBody rejected
C9_ExtractAfterCollect ==
    /\ Extracting =>
        /\ srcState = "ended"
        /\ destState = "finished"
        /\ promise = "resolved"
    /\ promise = "rejected" => ~Extracting

\* C9, witness: three fragments were collected before the entry was written
C9_Witness ==
    /\ written = MaxFrags
    /\ srcState = "ended"
    /\ chain = "written"

\* C10: when binName is a file of the archive, onSuccess is called only
\* after the write is done, and the file then holds the entry's content and
\* nothing of what it held before
C10_WriteThenSuccess ==
    /\ (writeCalls > 0 /\ onSuccessCalls > 0) =>
        /\ chain = "fulfilled"
        /\ file = [exists |-> TRUE, content |-> writeData]
    /\ (Collected /\ SentIsFile /\ onSuccessCalls > 0) =>
        /\ writeCalls = 1
        /\ file = [exists |-> TRUE, content |-> SentContent]

\* C10, witness: a file of three bytes was replaced by an entry of one byte
C10_Witness ==
    /\ fileBefore = OldFile
    /\ onSuccessCalls = 1
    /\ writeCalls = 1
    /\ Len(file.content) = 1

\* C11: the mode handed to fs.writeFile is the permission bits the entry
\* records, and is 0o666 exactly when the entry records none
C11_ModeIsStoredBits ==
    (Collected /\ SentIsFile /\ writeCalls > 0) =>
        /\ SentAttr = AttrExecutable => writeMode = ModeExecutable
        /\ SentAttr = AttrNoBits => writeMode = ModeNoBits
        /\ writeMode = ModeDefault <=> SentAttr = AttrNone

\* C12: when fs.writeFile fails, onError is called with its error, onSuccess
\* is not called, and fs.writeFile is not called again
C12_WriteFailureIsError ==
    error = "WriteError" =>
        /\ chain \in {"rejected", "caught"}
        /\ Quiet => chain = "caught"
        /\ chain = "caught" => onErrorCalls = 1 /\ onErrorArg = "WriteError"
        /\ onSuccessCalls = 0
        /\ writeCalls = 1

\* C12, witness: the write failed half way, leaving a truncated file, and
\* onError was called with the write error
C12_Witness ==
    /\ error = "WriteError"
    /\ chain = "caught"
    /\ onErrorArg = "WriteError"
    /\ fileBefore = OldFile
    /\ file = [exists |-> TRUE, content |-> <<>>]
    /\ Len(writeData) = 1

\* `npm bin` succeeded with usable output
NpmBinUsable ==
    /\ ~npmBin.err
    /\ npmBin.stderr = <<>>
    /\ npmBin.stdout # <<>>
    /\ process.versions.node[1] >= 20 =>
            /\ trim(npmBin.stdout) # <<>>
            /\ Head(trim(npmBin.stdout)) = "/"

\* C13: getInstallationPath calls callback exactly once.  When `npm bin`
\* succeeded with usable output dir is the trimmed stdout; otherwise it is
\* npm_config_prefix (on win32) or npm_config_prefix/bin, else
\* npm_config_local_prefix/node_modules/.bin, else cwd/node_modules/.bin
\* under pnpm, else the callback gets the error
C13_CallbackOnceWithDir ==
    pc \in {"returned", "thrown"} =>
        /\ callbackCalls = 1
        /\ callbackArgs =
            IF NpmBinUsable
            THEN [err |-> "null", dir |-> trim(npmBin.stdout)]
            ELSE IF process.env.npm_config_prefix.set
            THEN [err |-> "null",
                  dir |-> IF process.platform = "win32"
                          THEN process.env.npm_config_prefix.value
                          ELSE process.env.npm_config_prefix.value \o <<"bin">>]
            ELSE IF process.env.npm_config_local_prefix.set
            THEN [err |-> "null",
                  dir |-> process.env.npm_config_local_prefix.value
                            \o <<"node_modules", ".bin">>]
            ELSE IF packageManager \in {"pnpm", "PNPM"}
            THEN [err |-> "null",
                  dir |-> process.cwd \o <<"node_modules", ".bin">>]
            ELSE [err |-> NotFound, dir |-> <<>>]

\* the entry of `object` for `key`, if the object has one, else its default;
\* nothing when there is no object
Selected(value, key, undefined) ==
    IF value.type # "object" THEN undefined
    ELSE IF key \in DOMAIN value.obj /\ value.obj[key].type # "undefined"
         THEN value.obj[key]
         ELSE value.obj["default"]

\* C14: getUrl returns url when it is a string; otherwise the entry of the
\* mapped platform if present, else url.default; when that is a string it is
\* returned, otherwise its entry of the mapped architecture if present, else
\* its default
C14_SelectsByPlatformAndArch ==
    returned # NoCall =>
        LET u == urlArgs.url
            platform ==
                CASE urlArgs.process.platform = "win32" -> "windows"
                  [] urlArgs.process.platform \in {"linux", "darwin", "freebsd"}
                        -> urlArgs.process.platform
                  [] OTHER -> "undefined"
            arch ==
                CASE urlArgs.process.arch = "x64" -> "amd64"
                  [] urlArgs.process.arch = "ia32" -> "386"
                  [] urlArgs.process.arch \in {"arm", "arm64"}
                        -> urlArgs.process.arch
                  [] OTHER -> "undefined"
            selection == Selected(u, platform, Undefined1)
            result ==
                IF u.type = "string" THEN u
                ELSE IF selection.type = "string" THEN selection
                ELSE Selected(selection, arch, Undefined2)
        IN  returned = [thrown |-> FALSE, type |-> result.type,
                        str |-> result.str]

\* the bytes of the Buffers of chunkList, in order
ListBytes(cl, h) == Flatten([i \in 1..Len(cl) |-> BytesOf(cl[i], h)])

\* C15: while memory is reserved chunkList is empty, once chunkList holds a
\* chunk no memory is reserved, and after the first byte exactly one of the
\* two is in use
C15_ExactlyOneMode ==
    /\ reservedMemory.tag = "object" => chunkList = <<>>
    /\ chunkList # <<>> => reservedMemory.tag # "object"
    /\ expected # <<>> => (reservedMemory.tag = "object" <=> chunkList = <<>>)

\* C15, witness: the second chunk did not fit; the reserved memory is given
\* up and chunkList holds the written area and the chunk
C15_Witness ==
    /\ destState = "open"
    /\ written = 2
    /\ reservedMemory.tag = "null"
    /\ Len(chunkList) = 2
    /\ chunkList[1].mem = ReservedMem

\* C16: once the reserved memory is given up it stays given up, nothing is
\* written to it any more, and every later chunk is appended to chunkList
C16_FallbackIsOneWay ==
    [][reservedMemory.tag = "null" =>
        /\ reservedMemory'.tag = "null"
        /\ heap'[ReservedMem] = heap[ReservedMem]
        /\ Len(chunkList') >= Len(chunkList)
        /\ SubSeq(chunkList', 1, Len(chunkList)) = chunkList
        /\ expected' = expected \o
             ListBytes(SubSeq(chunkList', Len(chunkList) + 1, Len(chunkList')),
                       heap')]_vars

\* C16, witness: a chunk was appended after the chunk that did not fit
C16_Witness ==
    /\ destState = "open"
    /\ written = 3
    /\ reservedMemory.tag = "null"
    /\ Len(chunkList) = 3
    /\ chunkList[1].mem = ReservedMem
    /\ chunkList[3].mem = 3
    /\ chunkList[3].len = 1

\* C17: when a chunk does not fit, chunkList becomes the written area
\* followed by the whole chunk, or the chunk alone when nothing was written;
\* the reserved memory is not written and no byte is lost or out of order
C17_OverflowKeepsPrefix ==
    [][(reservedMemory.tag = "object" /\ reservedMemory'.tag = "null") =>
        LET w == reservedMemory.updatedByteLength
            n == Len(chunkList')
        IN  /\ n = IF w > 0 THEN 2 ELSE 1
            /\ w > 0 =>
                /\ chunkList'[1].len = w
                /\ BytesOf(chunkList'[1], heap')
                      = SubSeq(heap[ReservedMem], 1, w)
                /\ BytesOf(chunkList'[1], heap') = expected
            /\ chunkList'[n].mem = written'
            /\ chunkList'[n].obj[2] = written'
            /\ expected' = expected \o BytesOf(chunkList'[n], heap')
            /\ w + chunkList'[n].len > reservedMemory.reservedByteLength
            /\ heap'[ReservedMem] = heap[ReservedMem]
            /\ ListBytes(chunkList', heap') = expected']_vars

\* C17, witness: two bytes were written when a chunk of one byte did not fit
C17_Witness ==
    /\ written = 2
    /\ reservedMemory.tag = "null"
    /\ Len(chunkList) = 2
    /\ chunkList[1].obj = <<"prefix", 0>>
    /\ chunkList[1].len = 2
    /\ chunkList[2].len = 1

\* the header is a positive integer that is at most MAX_LENGTH
HintTrusted ==
    /\ ~contentLength.nan
    /\ \E n \in 1..MAX_LENGTH : contentLength.halves = n + n

\* C18: memory of exactly the declared length is reserved when the collector
\* is built if and only if the header is a positive integer that is at most
\* MAX_LENGTH; otherwise the collector has no reserved memory
C18_ReservesIffTrusted ==
    [][(destState = "none" /\ destState' = "open") =>
        IF HintTrusted
        THEN /\ reservedMemory'.tag = "object"
             /\ reservedMemory'.reservedByteLength + reservedMemory'.reservedByteLength
                    = contentLength.halves
             /\ reservedMemory'.buf.len = reservedMemory'.reservedByteLength
             /\ Len(heap'[ReservedMem]) = reservedMemory'.reservedByteLength
             /\ reservedMemory'.updatedByteLength = 0
        ELSE /\ reservedMemory'.tag = "undefined"
             /\ heap'[ReservedMem] = <<>>]_vars

\* C18, witness: the largest memory allowed is reserved and nothing has
\* arrived yet
C18_Witness ==
    /\ destState = "open"
    /\ written = 0
    /\ reservedMemory.tag = "object"
    /\ reservedMemory.reservedByteLength = MAX_LENGTH
    /\ Len(heap[ReservedMem]) = MAX_LENGTH

\* C19: while memory is reserved, 0 <= updatedByteLength <=
\* reservedByteLength, and the written area holds exactly the chunks that
\* arrived, each behind the one before; chunkList is untouched
C19_WrittenWithinReserved ==
    reservedMemory.tag = "object" =>
        /\ 0 <= reservedMemory.updatedByteLength
        /\ reservedMemory.updatedByteLength <= reservedMemory.reservedByteLength
        /\ reservedMemory.updatedByteLength = Len(expected)
        /\ SubSeq(heap[ReservedMem], 1, reservedMemory.updatedByteLength)
              = expected
        /\ \A i \in (reservedMemory.updatedByteLength + 1)..Len(heap[ReservedMem]) :
              heap[ReservedMem][i] = Uninit
        /\ chunkList = <<>>

\* C19, witness: two chunks fill the reserved memory to its last byte
C19_Witness ==
    /\ reservedMemory.tag = "object"
    /\ written = 2
    /\ reservedMemory.updatedByteLength = reservedMemory.reservedByteLength
    /\ Len(expected) = 3
    /\ expected[1] # expected[3]

\* C20: the reserved memory is given up only by a chunk that takes the
\* total beyond the declared length; when it is still reserved at the end,
\* getBody resolves with the written area, also when less than declared
\* arrived
C20_TrustedHintStaysReserved ==
    /\ [][(reservedMemory.tag = "object" /\ reservedMemory'.tag # "object")
            => Len(expected') > reservedMemory.reservedByteLength]_vars
    /\ [](reservedMemory.tag = "object" =>
            /\ Len(expected) <= reservedMemory.reservedByteLength
            /\ chunkList = <<>>
            /\ destState \in {"finished"} =>
                /\ promise = "resolved"
                /\ zipData.mem = ReservedMem
                /\ zipData.off = 0
                /\ zipData.len = Len(expected)
                /\ BytesOf(zipData, heap) = expected)

\* C20, witness: two bytes arrived in two chunks where more were declared,
\* and the result is the written area
C20_Witness ==
    /\ promise = "resolved"
    /\ written = 2
    /\ Len(expected) = 2
    /\ reservedMemory.tag = "object"
    /\ reservedMemory.reservedByteLength = MAX_LENGTH
    /\ zipData.obj = <<"result", 0>>
    /\ zipData.len = 2

\* the written area that was put on chunkList when a chunk did not fit
HasPrefix == chunkList # <<>> /\ chunkList[1].obj = <<"prefix", 0>>

\* C21 (as claimed): the written area put on chunkList is a copy, in memory
\* of its own and not in the reserved memory
C21_PrefixIsCopy ==
    HasPrefix => chunkList[1].mem # ReservedMem

\* C21 (amended): the written area put on chunkList is a view of the
\* reserved memory, from its first byte, that shares the memory and holds
\* the bytes written; that memory is given up and (C16) not written again
C21_PrefixIsView ==
    /\ HasPrefix =>
        /\ reservedMemory.tag = "null"
        /\ chunkList[1].mem = ReservedMem
        /\ chunkList[1].off = 0
        /\ chunkList[1].len > 0
        /\ BytesOf(chunkList[1], heap)
              = SubSeq(heap[ReservedMem], 1, chunkList[1].len)
        /\ BytesOf(chunkList[1], heap)
              = SubSeq(expected, 1, chunkList[1].len)
    /\ \A i \in 2..Len(chunkList) : chunkList[i].mem # ReservedMem

\* C21, witness: one byte was written to reserved memory of two bytes when
\* a chunk of two bytes arrived
C21_Witness ==
    /\ HasPrefix
    /\ Len(heap[ReservedMem]) = 2
    /\ chunkList[1].len = 1
    /\ Len(chunkList) = 2
    /\ chunkList[2].len = 2
    /\ heap[ReservedMem][2] = Uninit

C23_DoneOncePerChunk ==
    /\ doneCalls = written
    /\ destState = "ending" => ENABLED Finish
    /\ (srcState = "open" /\ piped /\ destState = "open" /\ written < MaxFrags)
          => ENABLED (\E c \in Chunks : Data(c))

\* C23, witness: a chunk was written to the reserved memory, one did not
\* fit, and Buffer.from threw on the third
C23_Witness ==
    /\ written = 3
    /\ doneCalls = 3
    /\ chunk = "string"
    /\ destState = "errorPending"
    /\ HasPrefix
    /\ Len(chunkList) = 2

\* C24: when onError is called because the collection failed or the archive
\* is malformed, the file is as it was and fs.writeFile was not called;
\* fs.writeFile is called only for a file named binName of an archive that
\* was read
C24_ErrorLeavesFileAlone ==
    /\ error \in {"TypeError", "ZipError"} =>
        /\ writeCalls = 0
        /\ file = fileBefore
    /\ promise \in {"none", "pending", "rejected"} =>
        /\ writeCalls = 0
        /\ file = fileBefore
    /\ (writeCalls > 0 \/ file # fileBefore) =>
        /\ Collected
        /\ SentIsFile
        /\ writeCalls = 1

\* C24, witness: a single byte is no archive; onError was called and the
\* file that was there is untouched
C24_Witness ==
    /\ onErrorCalls = 1
    /\ onErrorArg = "ZipError"
    /\ Len(expected) = 1
    /\ fileBefore = OldFile
    /\ file = OldFile

====
